---------------------------- MODULE Spec2Model ----------------------------
(***************************************************************************)
(* Model of the request pipeline of src/src/index.ts: URL/body            *)
(* construction, one dispatched attempt with its deadline timer            *)
(* (baseRequest) and the retry loop around it (request).                   *)
(*                                                                         *)
(* JavaScript values are records tagged by the field t, so that values of  *)
(* different JavaScript types can be compared.  A JavaScript string that   *)
(* the code inspects character by character (URLs, keys, bodies) is a      *)
(* sequence of one-character strings.                                      *)
(***************************************************************************)
EXTENDS Integers, Sequences, FiniteSets

VARIABLES
    active,      \* the request invocations that exist
    args,        \* args[r]: the Request passed to invocation r
    options,     \* options[r]: the RequestOptions passed to invocation r
    pc,          \* pc[r]: where invocation r is suspended
    site,        \* site[r]: which call of baseRequest is running ("loop": line 90, "final": line 118)
    count,       \* count[r]: the loop variable of request
    body,        \* body[r]: the body built by the current attempt
    requestURL,  \* requestURL[r]: the effective URL built by the current attempt
    timers,      \* timers[r]: number of deadline timers scheduled and neither fired nor cleared
    timer,       \* timer[r]: the local variable timer of the current attempt (null or a handle)
    aborted,     \* aborted[r]: controller.signal.aborted of the current attempt
    response,    \* response[r]: the response the transport delivered to the current attempt
    outcome,     \* outcome[r]: the tuple the last finished attempt returned
    result,      \* result[r]: the tuple request resolved with, or the exception it rejected with
    delayMs,     \* delayMs[r]: the duration of the retry delay being awaited
    calls,       \* calls[r]: what was passed to the transport, one entry per call of fetch
    delays,      \* delays[r]: the retry delays awaited so far, one entry per setTimeout of line 111
    fnCalls,     \* fnCalls[r]: the arguments retry.delay was called with, in order
    handled,     \* handled[r]: the handlers the current attempt invoked, in order
    handlerRet,  \* handlerRet[r]: the values the handlers of the current attempt returned
    raised,      \* raised[r]: the values the catch block of the current attempt caught
    only429,     \* only429[r]: every call of fetch so far was answered, and with status 429
    now          \* the clock read by Date.now()

vars == <<active, args, options, pc, site, count, body, requestURL, timers, timer,
          aborted, response, outcome, result, delayMs, calls, delays, fnCalls,
          handled, handlerRet, raised, only429, now>>

-----------------------------------------------------------------------------
(* Bounds of the model *)

\* largest retry.count the caller configures
MaxRetry == 2

-----------------------------------------------------------------------------
(* JavaScript values *)

Undefined == [t |-> "undefined"]
Null == [t |-> "null"]
Str(s) == [t |-> "string", v |-> s]
Num(n) == [t |-> "number", v |-> n]
BigInt(n) == [t |-> "bigint", v |-> n]
Obj(pairs) == [t |-> "object", v |-> pairs]
Fn(name) == [t |-> "function", v |-> name]
Method(m) == [t |-> "method", v |-> m]

\* a message string: its fixed text and the values interpolated into it
Message(text, method, url, n) ==
    [t |-> "string", text |-> text, method |-> method, url |-> url, n |-> n]
Text(text) == Message(text, "", <<>>, 0)

IsNullish(v) == v.t \in {"undefined", "null"}

\* JavaScript truthiness, on the values of the model
Truthy(v) ==
    CASE v.t \in {"undefined", "null"} -> FALSE
      [] v.t = "number" -> v.v # 0
      [] v.t = "string" -> v.v # <<>>
      [] OTHER -> TRUE

\* a completed call: the value it returned, or the value it threw
Ret(v) == [thrown |-> FALSE, v |-> v]
Thrown(e) == [thrown |-> TRUE, v |-> e]

\* an Error object; the fields a RequestError adds are undefined on other errors
Err(name, message) ==
    [t |-> "error", name |-> name, message |-> Text(message), statusCode |-> Undefined,
     data |-> Undefined, url |-> Undefined, method |-> Undefined,
     headers |-> Undefined, timestamp |-> Undefined]

\* new RequestError(a): a.statusCode, a.data and a.headers may be undefined
RequestError(a) ==
    [t |-> "error", name |-> "RequestError", message |-> a.message,
     statusCode |-> a.statusCode, data |-> a.data, url |-> a.url,
     method |-> a.method, headers |-> a.headers, timestamp |-> a.timestamp]

\* error?.statusCode
StatusCodeOf(e) == IF IsNullish(e) THEN Undefined ELSE e.statusCode

-----------------------------------------------------------------------------
(* Strings *)

RECURSIVE Digits(_)
\* String(n) for a natural number n
Digits(n) ==
    LET d == <<"0", "1", "2", "3", "4", "5", "6", "7", "8", "9">>
    IN IF n < 10 THEN <<d[n + 1]>> ELSE Digits(n \div 10) \o <<d[(n % 10) + 1]>>

RECURSIVE Split(_, _)
\* s.split(sep) for a one-character separator
Split(s, sep) ==
    IF \A i \in 1..Len(s) : s[i] # sep
    THEN <<s>>
    ELSE LET k == CHOOSE i \in 1..Len(s) : s[i] = sep /\ \A j \in 1..(i - 1) : s[j] # sep
         IN <<SubSeq(s, 1, k - 1)>> \o Split(SubSeq(s, k + 1, Len(s)), sep)

RECURSIVE Join(_, _)
\* segs.join(sep)
Join(segs, sep) ==
    IF Len(segs) = 0 THEN <<>>
    ELSE IF Len(segs) = 1 THEN segs[1]
    ELSE segs[1] \o <<sep>> \o Join(Tail(segs), sep)

\* characters encodeURIComponent leaves alone: A-Z a-z 0-9 - _ . ! ~ * ' ( )
Unreserved == {"a", "b", "c", "d", "e", "f", "g", "h", "i", "j", "k", "l", "m",
               "n", "o", "p", "q", "r", "s", "t", "u", "v", "w", "x", "y", "z",
               "A", "B", "C", "D", "E", "F", "G", "H", "I", "J", "K", "L", "M",
               "N", "O", "P", "Q", "R", "S", "T", "U", "V", "W", "X", "Y", "Z",
               "0", "1", "2", "3", "4", "5", "6", "7", "8", "9",
               "-", "_", ".", "!", "~", "*", "'", "(", ")"}

\* a lone surrogate code unit, which has no UTF-8 encoding
LoneSurrogate == "\\uD800"

\* the percent-encoding of one character
EncodeChar(c) ==
    CASE c \in Unreserved -> <<c>>
      [] c = " " -> <<"%", "2", "0">>
      [] c = "/" -> <<"%", "2", "F">>
      [] c = ":" -> <<"%", "3", "A">>
      [] c = "?" -> <<"%", "3", "F">>
      [] c = "=" -> <<"%", "3", "D">>
      [] c = "&" -> <<"%", "2", "6">>
      [] c = "[" -> <<"%", "5", "B">>
      [] c = "]" -> <<"%", "5", "D">>
      [] c = "{" -> <<"%", "7", "B">>
      [] c = "}" -> <<"%", "7", "D">>
      [] OTHER -> <<"%", "?", "?">>

RECURSIVE EncodeChars(_)
EncodeChars(s) == IF s = <<>> THEN <<>> ELSE EncodeChar(Head(s)) \o EncodeChars(Tail(s))

\* String(f) for a built-in function f
NativeCode == <<"f", "u", "n", "c", "t", "i", "o", "n", " ", "O", "b", "j", "e", "c", "t",
                "(", ")", " ", "{", " ", "[", "n", "a", "t", "i", "v", "e", " ",
                "c", "o", "d", "e", "]", " ", "}">>

\* String(v) for a scalar or a function
StringOf(v) ==
    CASE v.t = "string" -> v.v
      [] v.t \in {"number", "bigint"} -> Digits(v.v)
      [] v.t = "function" -> NativeCode
      [] v.t = "undefined" -> <<"u", "n", "d", "e", "f", "i", "n", "e", "d">>
      [] OTHER -> <<"n", "u", "l", "l">>

\* encodeURIComponent(v): throws URIError on a lone surrogate
encodeURIComponent(v) ==
    LET s == StringOf(v)
    IN IF \E i \in 1..Len(s) : s[i] = LoneSurrogate
       THEN Thrown(Err("URIError", "URI malformed"))
       ELSE Ret(EncodeChars(s))

-----------------------------------------------------------------------------
(* Mappings: a JavaScript object literal is the sequence of its <<key, value>>
   pairs in insertion order, keys distinct *)

HasKey(pairs, key) == \E i \in 1..Len(pairs) : pairs[i][1] = key
Lookup(pairs, key) == pairs[CHOOSE i \in 1..Len(pairs) : pairs[i][1] = key][2]

\* property names every object literal inherits from Object.prototype
Inherited == {<<"c", "o", "n", "s", "t", "r", "u", "c", "t", "o", "r">>}

\* obj[key]: the own property, else the inherited one, else undefined
Get(pairs, key) ==
    IF HasKey(pairs, key) THEN Lookup(pairs, key)
    ELSE IF key \in Inherited THEN Fn("Object")
    ELSE Undefined

RECURSIVE Defined(_)
\* the members JSON.stringify and qs.stringify keep: those whose value is
\* neither undefined nor a function
Defined(pairs) ==
    IF pairs = <<>> THEN <<>>
    ELSE IF pairs[1][2].t \in {"undefined", "function"} THEN Defined(Tail(pairs))
    ELSE <<pairs[1]>> \o Defined(Tail(pairs))

-----------------------------------------------------------------------------
(* URL and body construction *)

RECURSIVE PopulateFrom(_, _, _)
\* the loop of populateParams from index i on: the segments, or the exception thrown
PopulateFrom(urls, params, i) ==
    IF i > Len(urls) THEN Ret(urls)
    ELSE LET url == urls[i]
         IN IF Len(url) > 0 /\ url[1] = ":"
            THEN LET key == Tail(url)
                     held == Get(params, key)
                     value == IF IsNullish(held) THEN Str(<<>>) ELSE held
                     enc == encodeURIComponent(value)
                 IN IF enc.thrown THEN enc
                    ELSE PopulateFrom([urls EXCEPT ![i] = enc.v], params, i + 1)
            ELSE PopulateFrom(urls, params, i + 1)

\* populateParams(url, params)
populateParams(url, params) ==
    LET r == PopulateFrom(Split(url, "/"), params, 1)
    IN IF r.thrown THEN r ELSE Ret(Join(r.v, "/"))

RECURSIVE QsPairs(_)
\* qs.stringify of a flat mapping of scalars: key=value joined by &
QsPairs(pairs) ==
    IF pairs = <<>> THEN <<>>
    ELSE LET one == EncodeChars(pairs[1][1]) \o <<"=">> \o EncodeChars(StringOf(pairs[1][2]))
         IN IF Len(pairs) = 1 THEN one ELSE one \o <<"&">> \o QsPairs(Tail(pairs))

\* qs.stringify(query, queryOptions)
qsStringify(query, queryOptions) == QsPairs(Defined(query.v))

\* constructURL appending the query whatever the method
constructURL_AnyMethod(a) ==
    LET populated == IF Truthy(a.urlParams)
                     THEN populateParams(a.url, a.urlParams.v)
                     ELSE Ret(a.url)
    IN IF populated.thrown THEN populated
       ELSE IF Truthy(a.query) /\ Len(a.query.v) > 0
            THEN Ret(populated.v \o <<"?">> \o qsStringify(a.query, a.queryOptions))
            ELSE populated

\* constructURL substituting with an empty mapping when urlParams is absent
constructURL_AlwaysPopulates(a) ==
    LET populated == IF Truthy(a.urlParams)
                     THEN populateParams(a.url, a.urlParams.v)
                     ELSE populateParams(a.url, <<>>)
    IN IF populated.thrown THEN populated
       ELSE IF a.method = "GET" /\ Truthy(a.query) /\ Len(a.query.v) > 0
            THEN Ret(populated.v \o <<"?">> \o qsStringify(a.query, a.queryOptions))
            ELSE populated

\* constructURL(args)
constructURL(a) ==
    LET populated == IF Truthy(a.urlParams)
                     THEN populateParams(a.url, a.urlParams.v)
                     ELSE Ret(a.url)
    IN IF populated.thrown THEN populated
       ELSE IF a.method = "GET" /\ Truthy(a.query) /\ Len(a.query.v) > 0
            THEN Ret(populated.v \o <<"?">> \o qsStringify(a.query, a.queryOptions))
            ELSE populated

\* the JSON text of a scalar
JsonScalar(v) ==
    IF v.t = "string" THEN <<"\"">> \o v.v \o <<"\"">> ELSE StringOf(v)

RECURSIVE JsonMembers(_)
JsonMembers(pairs) ==
    IF pairs = <<>> THEN <<>>
    ELSE LET one == <<"\"">> \o pairs[1][1] \o <<"\"", ":">> \o JsonScalar(pairs[1][2])
         IN IF Len(pairs) = 1 THEN one ELSE one \o <<",">> \o JsonMembers(Tail(pairs))

\* JSON.stringify(p) of a flat mapping: throws TypeError on a BigInt
JSONstringify(p) ==
    IF \E i \in 1..Len(p.v) : p.v[i][2].t = "bigint"
    THEN Thrown(Err("TypeError", "Do not know how to serialize a BigInt"))
    ELSE Ret(Str(<<"{">> \o JsonMembers(Defined(p.v)) \o <<"}">>))

\* constructBody without the test of the method
constructBody_IgnoresMethod(payload, method) ==
    LET p == IF Truthy(payload) THEN payload ELSE Obj(<<>>)
    IN IF Len(p.v) = 0
       THEN Ret(Undefined)
       ELSE JSONstringify(p)

\* constructBody(payload, method)
constructBody(payload, method) ==
    LET p == IF Truthy(payload) THEN payload ELSE Obj(<<>>)
    IN IF method = "GET" \/ Len(p.v) = 0
       THEN Ret(Undefined)
       ELSE JSONstringify(p)

-----------------------------------------------------------------------------
(* The inputs: requests, options, and what the transport and the caller's
   callbacks may do *)

Invocations == {1, 2}

URLTemplate == <<"/", "p", "/", ":", "i", "d">>

Requests ==
    { [url |-> URLTemplate, method |-> "GET", payload |-> Undefined, headers |-> Undefined,
       query |-> Obj(<< <<<<"q">>, Str(<<"a", " ", "b">>)>> >>), queryOptions |-> Undefined,
       urlParams |-> Obj(<< <<<<"i", "d">>, Num(2)>> >>)],
      [url |-> URLTemplate, method |-> "POST", payload |-> Obj(<< <<<<"k">>, Str(<<"v">>)>> >>),
       headers |-> Obj(<< <<<<"x">>, Str(<<"1">>)>> >>),
       query |-> Undefined, queryOptions |-> Undefined, urlParams |-> Undefined],
      [url |-> URLTemplate, method |-> "GET", payload |-> Undefined, headers |-> Undefined,
       query |-> Undefined, queryOptions |-> Undefined,
       urlParams |-> Obj(<< <<<<"i", "d">>, Str(<<LoneSurrogate>>)>> >>)],
      [url |-> URLTemplate, method |-> "POST", payload |-> Obj(<< <<<<"k">>, BigInt(1)>> >>),
       headers |-> Undefined, query |-> Undefined, queryOptions |-> Undefined,
       urlParams |-> Obj(<<>>)] }

\* retry.delay as the caller may give it
Delays == {Undefined, Num(0), Num(1000), Fn("backoff"), Fn("throws")}

\* options.retry as the caller may give it
Retries ==
    {Undefined}
    \cup {[t |-> "object", count |-> c, delay |-> Undefined] : c \in {Undefined, Num(-1), Num(0)}}
    \cup {[t |-> "object", count |-> Num(n), delay |-> d] : n \in 1..MaxRetry, d \in Delays}

Handlers == {Undefined, Fn("custom")}

Options ==
    [retry : Retries, timeout : {Undefined, Num(5000)},
     handleErrorResponse : Handlers, handleSuccessResponse : Handlers]

\* the caller's retry.delay called with the attempt index
CallDelay(f, attempt) ==
    IF f.v = "backoff" THEN Ret(Num((2 ^ attempt) * 1000))
    ELSE Thrown(Err("Error", "delay failed"))

\* s.includes(sub)
Includes(s, sub) ==
    \E i \in 0..(Len(s) - Len(sub)) : SubSeq(s, i + 1, i + Len(sub)) = sub

\* the substring line 124 looks for
ApplicationJson == <<"a", "p", "p", "l", "i", "c", "a", "t", "i", "o", "n", "/",
                   "j", "s", "o", "n">>

\* values of the Content-Type header
JsonType == Str(ApplicationJson \o <<";", " ", "c", "h", "a", "r", "s", "e", "t", "=", "u", "t",
                               "f", "-", "8">>)
TextType == Str(<<"t", "e", "x", "t", "/", "p", "l", "a", "i", "n">>)
BareJsonType == Str(ApplicationJson)
UpperJsonType == Str(<<"A", "p", "p", "l", "i", "c", "a", "t", "i", "o", "n", "/",
                     "J", "S", "O", "N">>)
VendorJsonType == Str(<<"a", "p", "p", "l", "i", "c", "a", "t", "i", "o", "n", "/",
                      "l", "d", "+", "j", "s", "o", "n">>)

BodyObject == <<"{", "}">>
BodyNull == <<"n", "u", "l", "l">>
BodyBroken == <<"<">>

\* what the transport may deliver: response.ok is the 2xx band
Responses ==
    [status : {200, 404, 429}, contentType : {JsonType, TextType},
     body : {BodyObject, BodyNull, BodyBroken}]

Ok(resp) == resp.status >= 200 /\ resp.status < 300

\* response.headers.raw()
HeadersRaw(resp) == Obj(<< <<<<"content-type">>, resp.contentType>> >>)

\* response.headers.get('Content-Type')
HeadersGet(resp) == resp.contentType

\* response.json()
JsonOf(resp) ==
    CASE resp.body = BodyObject -> Ret(Obj(<<>>))
      [] resp.body = BodyNull -> Ret(Null)
      [] OTHER -> Thrown(Err("SyntaxError", "Unexpected token"))

\* response.text()
TextOf(resp) == Ret(Str(resp.body))

AbortError == Err("AbortError", "The user aborted a request.")

\* what fetch may reject with when the call fails below HTTP
TransportFaults == {Err("FetchError", "connect ECONNREFUSED")}

\* what a handler supplied by the caller may return, and what it may throw
CustomReturns == {Num(123), Undefined}
CustomThrows == {Err("Error", "handler failed")}

\* the test of line 124 comparing the header with 'application/json'
IsJsonType_Exact(ct) == ct = Str(ApplicationJson)

\* the test of line 124: ct?.includes('application/json')
IsJsonType(ct) == ~IsNullish(ct) /\ Includes(ct.v, ApplicationJson)

\* handleResponse(response), lines 121-131
handleResponse(resp) ==
    IF IsJsonType(HeadersGet(resp)) THEN JsonOf(resp) ELSE TextOf(resp)

\* computeDefaultRetryDelay(retryCount), lines 133-135
computeDefaultRetryDelay(retryCount) == retryCount * 2000

\* how a call of handler h on resp may settle; once the signal is aborted the
\* body can no longer be read: the default handler, which reads it, rejects
\* with AbortError, and a caller's handler may
HandlerSettles(h, resp, isAborted) ==
    IF IsNullish(h)
    THEN IF isAborted THEN {Thrown(AbortError)} ELSE {handleResponse(resp)}
    ELSE {Ret(v) : v \in CustomReturns} \cup {Thrown(e) : e \in CustomThrows}
         \cup (IF isAborted THEN {Thrown(AbortError)} ELSE {})

-----------------------------------------------------------------------------
(* The state *)

Pending == [settled |-> "pending"]
Fulfilled(tuple) == [settled |-> "fulfilled", value |-> tuple]
Rejected(e) == [settled |-> "rejected", reason |-> e]

NoTuple == <<Undefined, Undefined>>

InitFor(A) ==
    /\ active = A
    /\ \E a \in [A -> Requests], o \in [A -> Options] :
          /\ args = [r \in Invocations |-> IF r \in A THEN a[r] ELSE Undefined]
          /\ options = [r \in Invocations |-> IF r \in A THEN o[r] ELSE Undefined]
    /\ pc = [r \in Invocations |-> IF r \in A THEN "init" ELSE "unused"]
    /\ site = [r \in Invocations |-> "none"]
    /\ count = [r \in Invocations |-> 0]
    /\ body = [r \in Invocations |-> Undefined]
    /\ requestURL = [r \in Invocations |-> <<>>]
    /\ timers = [r \in Invocations |-> {}]
    /\ timer = [r \in Invocations |-> Null]
    /\ aborted = [r \in Invocations |-> FALSE]
    /\ response = [r \in Invocations |-> Null]
    /\ outcome = [r \in Invocations |-> NoTuple]
    /\ result = [r \in Invocations |-> Pending]
    /\ delayMs = [r \in Invocations |-> 0]
    /\ calls = [r \in Invocations |-> <<>>]
    /\ delays = [r \in Invocations |-> <<>>]
    /\ fnCalls = [r \in Invocations |-> <<>>]
    /\ handled = [r \in Invocations |-> <<>>]
    /\ handlerRet = [r \in Invocations |-> <<>>]
    /\ raised = [r \in Invocations |-> <<>>]
    /\ only429 = [r \in Invocations |-> TRUE]
    /\ now = 0

\* one caller
Init == InitFor({1})

-----------------------------------------------------------------------------
(* The decisions of request, lines 78-119 *)

\* retry?.count, line 88
RetryCountOf(o) == IF IsNullish(o.retry) THEN Undefined ELSE o.retry.count

\* the condition of line 88: retry?.count && retry.count > 0
Looping(o) == Truthy(RetryCountOf(o)) /\ RetryCountOf(o).v > 0

\* the loop test with its bound one too small
LoopTest_OffByOne(c, retry) == c + 1 < retry.count.v

\* the loop test of line 89
LoopTest(c, retry) == c < retry.count.v

\* the stop rule left out
IsRateLimited_Never(error) == FALSE

\* the stop rule of line 92: error?.statusCode === 429
IsRateLimited(error) == StatusCodeOf(error) = Num(429)

\* the budget rule of line 96: error && count === retry.count
IsExhausted(error, c, retry) == Truthy(error) /\ Num(c) = retry.count

\* the test of line 100 comparing with undefined, which a null error passes
ShouldRetry_Always(error) == TRUE

\* the test of line 100: if (error)
ShouldRetry(error) == Truthy(error)

\* the delay chosen by truthiness (retry.delay || default) instead of by type
ComputeDelay_Falsy(retry, c) ==
    IF retry.delay.t = "function" THEN CallDelay(retry.delay, c)
    ELSE IF Truthy(retry.delay) THEN Ret(retry.delay)
    ELSE Ret(Num(computeDefaultRetryDelay(c)))

\* the delay of lines 101-109 after the failed attempt c: the duration, or the
\* exception the caller's function threw
ComputeDelay(retry, c) ==
    IF retry.delay.t = "function" THEN CallDelay(retry.delay, c)
    ELSE IF retry.delay.t = "number" THEN Ret(retry.delay)
    ELSE Ret(Num(computeDefaultRetryDelay(c)))

\* the arguments lines 101-109 call retry.delay with after the failed attempt c
DelayCalls(retry, c) == IF retry.delay.t = "function" THEN <<c>> ELSE <<>>

-----------------------------------------------------------------------------
(* The decisions of baseRequest, lines 5-76 *)

\* options.timeout with its default, line 20
TimeoutOf(o) == IF o.timeout.t = "undefined" THEN 30 * 1000 ELSE o.timeout.v

\* clearTimeout(handle) on the pending timers tm
ClearTimeout(tm, handle) == IF IsNullish(handle) THEN tm ELSE tm \ {handle.v}

\* the RequestError of lines 41-49
HttpFailure(a, u, resp, data, t) ==
    RequestError(
      [message |-> Message("Request failed: returned a status code of",
                           a.method, u, resp.status),
       statusCode |-> Num(resp.status),
       data |-> data,
       url |-> Str(u),
       method |-> Method(a.method),
       headers |-> HeadersRaw(resp),
       timestamp |-> Num(t)])

\* the RequestError of lines 64-70 given the status code 408
TimeoutFailure_WithStatus(a, o, u, t) ==
    RequestError(
      [message |-> Message("Request timeout: did not respond within",
                           a.method, u, TimeoutOf(o)),
       statusCode |-> Num(408),
       data |-> Obj(<< <<<<"timeout">>, Obj(<< <<<<"seconds">>, Num(TimeoutOf(o))>> >>)>> >>),
       url |-> Str(a.url),
       method |-> Method(a.method),
       headers |-> Undefined,
       timestamp |-> Num(t)])

\* the RequestError of lines 64-70
TimeoutFailure(a, o, u, t) ==
    RequestError(
      [message |-> Message("Request timeout: did not respond within",
                           a.method, u, TimeoutOf(o)),
       statusCode |-> Undefined,
       data |-> Obj(<< <<<<"timeout">>, Obj(<< <<<<"seconds">>, Num(TimeoutOf(o))>> >>)>> >>),
       url |-> Str(a.url),
       method |-> Method(a.method),
       headers |-> Undefined,
       timestamp |-> Num(t)])

\* the catch block testing for a name fetch never gives its abort
Normalize_WrongName(e, a, o, u, t) ==
    IF e.t = "error" /\ e.name = "TimeoutError" THEN TimeoutFailure(a, o, u, t) ELSE e

\* what the catch block makes of the exception e, lines 62-72
Normalize(e, a, o, u, t) ==
    IF e.t = "error" /\ e.name = "AbortError" THEN TimeoutFailure(a, o, u, t) ELSE e

\* the tuple of line 74 with its slots swapped
FailureTuple_Swapped(e) == <<e, Null>>

\* the tuple of line 56 holding the data wrapped in an object
SuccessTuple_Wrapped(data) == <<Obj(<< <<<<"data">>, data>> >>), Null>>

\* the tuple of line 56
SuccessTuple(data) == <<data, Null>>

\* the tuple of line 74
FailureTuple(e) == <<Null, e>>

-----------------------------------------------------------------------------
(* request, lines 78-119, and baseRequest, lines 5-76, as steps between awaits *)

\* request deleting the headers from the args it was given
Request_DropsHeaders(r) ==
    /\ pc[r] = "init"
    /\ site' = [site EXCEPT ![r] =
                  IF Looping(options[r]) /\ LoopTest(0, options[r].retry)
                  THEN "loop" ELSE "final"]
    /\ count' = [count EXCEPT ![r] = 0]
    /\ pc' = [pc EXCEPT ![r] = "call"]
    /\ args' = [args EXCEPT ![r].headers = Undefined]
    /\ UNCHANGED <<active, options, body, requestURL, timers, timer, aborted,
                   response, outcome, result, delayMs, calls, delays, fnCalls,
                   handled, handlerRet, raised, only429, now>>

\* request up to its first call of baseRequest, lines 86-90 and 118
Request(r) ==
    /\ pc[r] = "init"
    /\ site' = [site EXCEPT ![r] =
                  IF Looping(options[r]) /\ LoopTest(0, options[r].retry)
                  THEN "loop" ELSE "final"]
    /\ count' = [count EXCEPT ![r] = 0]
    /\ pc' = [pc EXCEPT ![r] = "call"]
    /\ UNCHANGED <<active, args, options, body, requestURL, timers, timer, aborted,
                   response, outcome, result, delayMs, calls, delays, fnCalls,
                   handled, handlerRet, raised, only429, now>>

\* an exception leaves request: the promise it returned rejects
Escapes(r, e) ==
    /\ result' = [result EXCEPT ![r] = Rejected(e)]
    /\ pc' = [pc EXCEPT ![r] = "rejected"]

\* request returns the tuple
Returns(r, tuple) ==
    /\ result' = [result EXCEPT ![r] = Fulfilled(tuple)]
    /\ pc' = [pc EXCEPT ![r] = "returned"]

\* baseRequest with one AbortController shared by the attempts of a request
BaseRequestStart_SharedController(r) ==
    /\ pc[r] = "call"
    /\ LET b == constructBody(args[r].payload, args[r].method)
           u == constructURL(args[r])
           id == Len(calls[r]) + 1
       IN IF b.thrown \/ u.thrown
          THEN /\ Escapes(r, IF b.thrown THEN b.v ELSE u.v)
               /\ UNCHANGED <<body, requestURL, timers, timer, calls>>
          ELSE /\ body' = [body EXCEPT ![r] = b.v]
               /\ requestURL' = [requestURL EXCEPT ![r] = u.v]
               /\ timer' = [timer EXCEPT ![r] = Num(id)]
               /\ timers' = [timers EXCEPT ![r] = @ \cup {id}]
               /\ calls' = [calls EXCEPT ![r] = Append(@,
                                [url |-> u.v, method |-> args[r].method, body |-> b.v,
                                 headers |-> args[r].headers, attempt |-> count[r],
                                 site |-> site[r]])]
               /\ pc' = [pc EXCEPT ![r] = "fetch"]
               /\ UNCHANGED result
    /\ response' = [response EXCEPT ![r] = Null]
    /\ outcome' = [outcome EXCEPT ![r] = NoTuple]
    /\ handled' = [handled EXCEPT ![r] = <<>>]
    /\ handlerRet' = [handlerRet EXCEPT ![r] = <<>>]
    /\ raised' = [raised EXCEPT ![r] = <<>>]
    /\ UNCHANGED <<active, args, options, site, count, delayMs, delays, fnCalls,
                   only429, now, aborted>>

\* baseRequest up to its await of fetch, lines 13-36: the construction is
\* outside the try block, so what it throws rejects baseRequest, and request
\* with it (the await of line 90, the return of line 118)
BaseRequestStart(r) ==
    /\ pc[r] = "call"
    /\ LET b == constructBody(args[r].payload, args[r].method)
           u == constructURL(args[r])
           id == Len(calls[r]) + 1
       IN IF b.thrown \/ u.thrown
          THEN /\ Escapes(r, IF b.thrown THEN b.v ELSE u.v)
               /\ UNCHANGED <<body, requestURL, timers, timer, aborted, calls>>
          ELSE /\ body' = [body EXCEPT ![r] = b.v]
               /\ requestURL' = [requestURL EXCEPT ![r] = u.v]
               /\ timer' = [timer EXCEPT ![r] = Num(id)]
               /\ timers' = [timers EXCEPT ![r] = @ \cup {id}]
               /\ aborted' = [aborted EXCEPT ![r] = FALSE]
               /\ calls' = [calls EXCEPT ![r] = Append(@,
                                [url |-> u.v, method |-> args[r].method, body |-> b.v,
                                 headers |-> args[r].headers, attempt |-> count[r],
                                 site |-> site[r]])]
               /\ pc' = [pc EXCEPT ![r] = "fetch"]
               /\ UNCHANGED result
    /\ response' = [response EXCEPT ![r] = Null]
    /\ outcome' = [outcome EXCEPT ![r] = NoTuple]
    /\ handled' = [handled EXCEPT ![r] = <<>>]
    /\ handlerRet' = [handlerRet EXCEPT ![r] = <<>>]
    /\ raised' = [raised EXCEPT ![r] = <<>>]
    /\ UNCHANGED <<active, args, options, site, count, delayMs, delays, fnCalls,
                   only429, now>>

\* the catch block without the clearTimeout of lines 58-60
Catch_Leaks(r, e, tm, t) ==
    /\ timers' = [timers EXCEPT ![r] = tm]
    /\ raised' = [raised EXCEPT ![r] = Append(@, e)]
    /\ outcome' = [outcome EXCEPT ![r] =
                     FailureTuple(Normalize(e, args[r], options[r], requestURL[r], t))]
    /\ pc' = [pc EXCEPT ![r] = "settled"]

\* the catch block, lines 57-75, entered at time t with the exception e, the
\* pending timers being tm
Catch(r, e, tm, t) ==
    /\ timers' = [timers EXCEPT ![r] = IF Truthy(timer[r]) THEN ClearTimeout(tm, timer[r]) ELSE tm]
    /\ raised' = [raised EXCEPT ![r] = Append(@, e)]
    /\ outcome' = [outcome EXCEPT ![r] =
                     FailureTuple(Normalize(e, args[r], options[r], requestURL[r], t))]
    /\ pc' = [pc EXCEPT ![r] = "settled"]

\* the transport delivers a response: lines 31-39 for a status that is not
\* ok, lines 31-38 and 52-54 for one that is
FetchResponds(r) ==
    /\ pc[r] = "fetch"
    /\ \E resp \in Responses :
          /\ response' = [response EXCEPT ![r] = resp]
          /\ only429' = [only429 EXCEPT ![r] = @ /\ resp.status = 429]
          /\ IF ~Ok(resp)
             THEN /\ handled' = [handled EXCEPT ![r] = Append(@, "handleErrorResponse")]
                  /\ pc' = [pc EXCEPT ![r] = "handleError"]
                  /\ UNCHANGED timers
             ELSE /\ timers' = [timers EXCEPT ![r] = ClearTimeout(@, timer[r])]
                  /\ handled' = [handled EXCEPT ![r] = Append(@, "handleSuccessResponse")]
                  /\ pc' = [pc EXCEPT ![r] = "handleSuccess"]
    /\ UNCHANGED <<active, args, options, site, count, body, requestURL, timer, aborted,
                   outcome, result, delayMs, calls, delays, fnCalls, handlerRet,
                   raised, now>>

\* the transport fails with fetch awaited outside the try block
FetchFails_Unguarded(r) ==
    /\ pc[r] = "fetch"
    /\ \E e \in TransportFaults : Escapes(r, e)
    /\ UNCHANGED <<active, args, options, site, count, body, requestURL, timers, timer,
                   aborted, response, outcome, delayMs, calls, delays, fnCalls,
                   handled, handlerRet, raised, only429, now>>

\* the transport fails: fetch rejects, lines 31 and 57-75
FetchFails(r) ==
    /\ pc[r] = "fetch"
    /\ \E e \in TransportFaults : Catch(r, e, timers[r], now)
    /\ only429' = [only429 EXCEPT ![r] = FALSE]
    /\ UNCHANGED <<active, args, options, site, count, body, requestURL, timer, aborted,
                   response, result, delayMs, calls, delays, fnCalls, handled,
                   handlerRet, now>>

\* a deadline timer firing with one AbortController shared by the whole
\* module: the abort reaches every invocation
TimerFires_AbortsAll(r) ==
    /\ \E id \in timers[r] :
          LET left == timers[r] \ {id}
              t == now + TimeoutOf(options[r])
              own == timer[r] = Num(id)
          IN /\ now' = t
             /\ aborted' = [q \in Invocations |-> aborted[q] \/ own]
             /\ IF own /\ pc[r] = "fetch"
                THEN /\ Catch(r, AbortError, left, t)
                     /\ only429' = [only429 EXCEPT ![r] = FALSE]
                ELSE /\ timers' = [timers EXCEPT ![r] = left]
                     /\ UNCHANGED <<raised, outcome, pc, only429>>
    /\ UNCHANGED <<active, args, options, site, count, body, requestURL, timer,
                   response, result, delayMs, calls, delays, fnCalls, handled,
                   handlerRet>>

\* a deadline timer fires, lines 27-29: it aborts the controller of its
\* attempt; a fetch in flight then rejects with AbortError (lines 57-75)
TimerFires(r) ==
    /\ \E id \in timers[r] :
          LET left == timers[r] \ {id}
              t == now + TimeoutOf(options[r])
              own == timer[r] = Num(id)
          IN /\ now' = t
             /\ aborted' = [aborted EXCEPT ![r] = @ \/ own]
             /\ IF own /\ pc[r] = "fetch"
                THEN /\ Catch(r, AbortError, left, t)
                     /\ only429' = [only429 EXCEPT ![r] = FALSE]
                ELSE /\ timers' = [timers EXCEPT ![r] = left]
                     /\ UNCHANGED <<raised, outcome, pc, only429>>
    /\ UNCHANGED <<active, args, options, site, count, body, requestURL, timer,
                   response, result, delayMs, calls, delays, fnCalls, handled,
                   handlerRet>>

\* handleErrorResponse settles, lines 39-50 and 57-75
HandleErrorSettles(r) ==
    /\ pc[r] = "handleError"
    /\ \E h \in HandlerSettles(options[r].handleErrorResponse, response[r], aborted[r]) :
          /\ handlerRet' = [handlerRet EXCEPT ![r] = IF h.thrown THEN @ ELSE Append(@, h.v)]
          /\ Catch(r,
                   IF h.thrown THEN h.v
                   ELSE HttpFailure(args[r], requestURL[r], response[r], h.v, now),
                   timers[r], now)
    /\ UNCHANGED <<active, args, options, site, count, body, requestURL, timer, aborted,
                   response, result, delayMs, calls, delays, fnCalls, handled,
                   only429, now>>

\* handleSuccessResponse settling with its fault swallowed: [undefined, null]
HandleSuccessSettles_SwallowsFault(r) ==
    /\ pc[r] = "handleSuccess"
    /\ \E h \in HandlerSettles(options[r].handleSuccessResponse, response[r], aborted[r]) :
          /\ handlerRet' = [handlerRet EXCEPT ![r] = IF h.thrown THEN @ ELSE Append(@, h.v)]
          /\ outcome' = [outcome EXCEPT ![r] =
                           SuccessTuple(IF h.thrown THEN Undefined ELSE h.v)]
          /\ pc' = [pc EXCEPT ![r] = "settled"]
          /\ UNCHANGED <<timers, raised>>
    /\ UNCHANGED <<active, args, options, site, count, body, requestURL, timer, aborted,
                   response, result, delayMs, calls, delays, fnCalls, handled,
                   only429, now>>

\* handleSuccessResponse settles, lines 54-56 and 57-75
HandleSuccessSettles(r) ==
    /\ pc[r] = "handleSuccess"
    /\ \E h \in HandlerSettles(options[r].handleSuccessResponse, response[r], aborted[r]) :
          IF h.thrown
          THEN Catch(r, h.v, timers[r], now) /\ UNCHANGED handlerRet
          ELSE /\ handlerRet' = [handlerRet EXCEPT ![r] = Append(@, h.v)]
               /\ outcome' = [outcome EXCEPT ![r] = SuccessTuple(h.v)]
               /\ pc' = [pc EXCEPT ![r] = "settled"]
               /\ UNCHANGED <<timers, raised>>
    /\ UNCHANGED <<active, args, options, site, count, body, requestURL, timer, aborted,
                   response, result, delayMs, calls, delays, fnCalls, handled,
                   only429, now>>

\* the body of the loop after the await of baseRequest, lines 90-114
LoopBody(r) ==
    /\ pc[r] = "settled"
    /\ site[r] = "loop"
    /\ LET data == outcome[r][1]
           error == outcome[r][2]
           retry == options[r].retry
       IN IF IsRateLimited(error)
          THEN Returns(r, <<Null, error>>) /\ UNCHANGED <<delayMs, delays, fnCalls>>
          ELSE IF IsExhausted(error, count[r], retry)
          THEN Returns(r, <<Null, error>>) /\ UNCHANGED <<delayMs, delays, fnCalls>>
          ELSE IF ShouldRetry(error)
          THEN LET delay == ComputeDelay(retry, count[r])
               IN /\ fnCalls' = [fnCalls EXCEPT ![r] = @ \o DelayCalls(retry, count[r])]
                  /\ IF delay.thrown
                     THEN Escapes(r, delay.v) /\ UNCHANGED <<delayMs, delays>>
                     ELSE /\ delayMs' = [delayMs EXCEPT ![r] = delay.v.v]
                          /\ delays' = [delays EXCEPT ![r] =
                                          Append(@, [after |-> count[r], ms |-> delay.v.v])]
                          /\ pc' = [pc EXCEPT ![r] = "delay"]
                          /\ UNCHANGED result
          ELSE Returns(r, <<data, Null>>) /\ UNCHANGED <<delayMs, delays, fnCalls>>
    /\ UNCHANGED <<active, args, options, site, count, body, requestURL, timers, timer,
                   aborted, response, outcome, calls, handled, handlerRet, raised,
                   only429, now>>

\* the loop going round with count += 2
DelayElapses_SkipsIndex(r) ==
    /\ pc[r] = "delay"
    /\ now' = now + delayMs[r]
    /\ count' = [count EXCEPT ![r] = @ + 2]
    /\ site' = [site EXCEPT ![r] =
                  IF LoopTest(count[r] + 2, options[r].retry) THEN "loop" ELSE "final"]
    /\ pc' = [pc EXCEPT ![r] = "call"]
    /\ UNCHANGED <<active, args, options, body, requestURL, timers, timer, aborted,
                   response, outcome, result, delayMs, calls, delays, fnCalls,
                   handled, handlerRet, raised, only429>>

\* the retry delay elapses, line 111, and the loop goes round, line 89: to
\* the call of line 90, or out of the loop to the call of line 118
DelayElapses(r) ==
    /\ pc[r] = "delay"
    /\ now' = now + delayMs[r]
    /\ count' = [count EXCEPT ![r] = @ + 1]
    /\ site' = [site EXCEPT ![r] =
                  IF LoopTest(count[r] + 1, options[r].retry) THEN "loop" ELSE "final"]
    /\ pc' = [pc EXCEPT ![r] = "call"]
    /\ UNCHANGED <<active, args, options, body, requestURL, timers, timer, aborted,
                   response, outcome, result, delayMs, calls, delays, fnCalls,
                   handled, handlerRet, raised, only429>>

\* the call of line 118 repeated once when it fails
FinalReturn_Redispatches(r) ==
    /\ pc[r] = "settled"
    /\ site[r] = "final"
    /\ IF Truthy(outcome[r][2]) /\ Len(calls[r]) < 2
       THEN pc' = [pc EXCEPT ![r] = "call"] /\ UNCHANGED result
       ELSE Returns(r, outcome[r])
    /\ UNCHANGED <<active, args, options, site, count, body, requestURL, timers, timer,
                   aborted, response, outcome, delayMs, calls, delays, fnCalls,
                   handled, handlerRet, raised, only429, now>>

\* the call of line 118 returns: request returns what baseRequest returned
FinalReturn(r) ==
    /\ pc[r] = "settled"
    /\ site[r] = "final"
    /\ Returns(r, outcome[r])
    /\ UNCHANGED <<active, args, options, site, count, body, requestURL, timers, timer,
                   aborted, response, outcome, delayMs, calls, delays, fnCalls,
                   handled, handlerRet, raised, only429, now>>

Next ==
    \E r \in Invocations :
        \/ Request(r)
        \/ BaseRequestStart(r)
        \/ FetchResponds(r)
        \/ FetchFails(r)
        \/ TimerFires(r)
        \/ HandleErrorSettles(r)
        \/ HandleSuccessSettles(r)
        \/ LoopBody(r)
        \/ DelayElapses(r)
        \/ FinalReturn(r)

Spec == Init /\ [][Next]_vars

-----------------------------------------------------------------------------
(* The exported default handler called on its own, lines 121-131 *)

\* the responses handed to the handler: the Content-Type header may be missing
HandlerResponses ==
    [status : {200, 404, 429},
     contentType : {Null, JsonType, TextType, BareJsonType, UpperJsonType, VendorJsonType},
     body : {BodyObject, BodyNull, BodyBroken}]

\* a caller holding a response
InitHandler ==
    /\ active = {1}
    /\ \E resp \in HandlerResponses :
          response = [r \in Invocations |-> IF r = 1 THEN resp ELSE Null]
    /\ args = [r \in Invocations |-> Undefined]
    /\ options = [r \in Invocations |-> Undefined]
    /\ pc = [r \in Invocations |-> IF r = 1 THEN "caller" ELSE "unused"]
    /\ site = [r \in Invocations |-> "none"]
    /\ count = [r \in Invocations |-> 0]
    /\ body = [r \in Invocations |-> Undefined]
    /\ requestURL = [r \in Invocations |-> <<>>]
    /\ timers = [r \in Invocations |-> {}]
    /\ timer = [r \in Invocations |-> Null]
    /\ aborted = [r \in Invocations |-> FALSE]
    /\ outcome = [r \in Invocations |-> NoTuple]
    /\ result = [r \in Invocations |-> Pending]
    /\ delayMs = [r \in Invocations |-> 0]
    /\ calls = [r \in Invocations |-> <<>>]
    /\ delays = [r \in Invocations |-> <<>>]
    /\ fnCalls = [r \in Invocations |-> <<>>]
    /\ handled = [r \in Invocations |-> <<>>]
    /\ handlerRet = [r \in Invocations |-> <<>>]
    /\ raised = [r \in Invocations |-> <<>>]
    /\ only429 = [r \in Invocations |-> TRUE]
    /\ now = 0

\* handleResponse up to its await, lines 122-127: it starts response.json()
\* or response.text(); handled[r] lists the decoders started
HandleResponseStart(r) ==
    /\ pc[r] = "caller"
    /\ LET decoder == IF IsJsonType(HeadersGet(response[r]))
                      THEN "response.json" ELSE "response.text"
       IN /\ pc' = [pc EXCEPT ![r] = decoder]
          /\ handled' = [handled EXCEPT ![r] = Append(@, decoder)]
    /\ UNCHANGED <<active, args, options, site, count, body, requestURL, timers, timer,
                   aborted, response, outcome, result, delayMs, calls, delays, fnCalls,
                   handlerRet, raised, only429, now>>

\* the decoder settles and handleResponse with it, lines 125-130
HandleResponseSettles(r) ==
    /\ pc[r] \in {"response.json", "response.text"}
    /\ result' = [result EXCEPT ![r] =
                    IF pc[r] = "response.json" THEN JsonOf(response[r]) ELSE TextOf(response[r])]
    /\ pc' = [pc EXCEPT ![r] = "handleResponse"]
    /\ UNCHANGED <<active, args, options, site, count, body, requestURL, timers, timer,
                   aborted, response, outcome, delayMs, calls, delays, fnCalls,
                   handled, handlerRet, raised, only429, now>>

NextHandler ==
    \E r \in Invocations :
        \/ HandleResponseStart(r)
        \/ HandleResponseSettles(r)

SpecHandler == InitHandler /\ [][NextHandler]_vars

-----------------------------------------------------------------------------
(* Two callers at once *)

\* the options of the two callers: with and without a retry
PairOptions ==
    [retry : {Undefined, [t |-> "object", count |-> Num(1), delay |-> Undefined]},
     timeout : {Num(5000)}, handleErrorResponse : {Undefined},
     handleSuccessResponse : {Undefined}]

\* the requests of the two callers: requests that can be built
PairRequests ==
    {a \in Requests : /\ ~constructBody(a.payload, a.method).thrown
                      /\ ~constructURL(a).thrown}

\* two invocations of request, not yet started: a GET and a POST
InitPair ==
    /\ active = {1, 2}
    /\ args \in {a \in [Invocations -> PairRequests] :
                    a[1].method = "GET" /\ a[2].method = "POST"}
    /\ options \in [Invocations -> PairOptions]
    /\ pc = [r \in Invocations |-> "init"]
    /\ site = [r \in Invocations |-> "none"]
    /\ count = [r \in Invocations |-> 0]
    /\ body = [r \in Invocations |-> Undefined]
    /\ requestURL = [r \in Invocations |-> <<>>]
    /\ timers = [r \in Invocations |-> {}]
    /\ timer = [r \in Invocations |-> Null]
    /\ aborted = [r \in Invocations |-> FALSE]
    /\ response = [r \in Invocations |-> Null]
    /\ outcome = [r \in Invocations |-> NoTuple]
    /\ result = [r \in Invocations |-> Pending]
    /\ delayMs = [r \in Invocations |-> 0]
    /\ calls = [r \in Invocations |-> <<>>]
    /\ delays = [r \in Invocations |-> <<>>]
    /\ fnCalls = [r \in Invocations |-> <<>>]
    /\ handled = [r \in Invocations |-> <<>>]
    /\ handlerRet = [r \in Invocations |-> <<>>]
    /\ raised = [r \in Invocations |-> <<>>]
    /\ only429 = [r \in Invocations |-> TRUE]
    /\ now = 0

SpecPair == InitPair /\ [][Next]_vars

-----------------------------------------------------------------------------
(* Termination *)

\* a handler awaited after the abort of the controller settles: the read of
\* the body it waits for rejects
AbortedHandlerSettles(r) ==
    /\ aborted[r]
    /\ HandleErrorSettles(r) \/ HandleSuccessSettles(r)

\* what the event loop guarantees: code that can run does run, a timer that
\* is armed fires and a handler whose call was aborted settles; the transport
\* need not respond and a body need not finish being read
Fairness ==
    \A r \in Invocations :
        /\ WF_vars(Request(r))
        /\ WF_vars(BaseRequestStart(r))
        /\ WF_vars(TimerFires(r))
        /\ WF_vars(AbortedHandlerSettles(r))
        /\ WF_vars(LoopBody(r))
        /\ WF_vars(DelayElapses(r))
        /\ WF_vars(FinalReturn(r))

\* the retry configurations of the runs checked for termination
LiveRetries ==
    {Undefined} \cup {[t |-> "object", count |-> Num(1), delay |-> d] : d \in {Undefined, Num(1000)}}

\* one caller, whose request is one that can be built
InitLive ==
    /\ InitFor({1})
    /\ ~constructBody(args[1].payload, args[1].method).thrown
    /\ ~constructURL(args[1]).thrown
    /\ args[1].method = "POST"
    /\ options[1].retry \in LiveRetries

SpecLive == InitLive /\ [][Next]_vars /\ Fairness

-----------------------------------------------------------------------------
(* The exported construction functions called on their own, lines 137-184 *)

Methods == {"GET", "POST", "PUT", "PATCH", "DELETE"}

Payloads ==
    { Undefined,
      Obj(<<>>),
      Obj(<< <<<<"k">>, Str(<<"v">>)>> >>),
      Obj(<< <<<<"k">>, Str(<<"v">>)>>, <<<<"n">>, Num(1)>> >>),
      Obj(<< <<<<"k">>, Undefined>> >>),
      Obj(<< <<<<"k">>, BigInt(1)>> >>) }

Queries ==
    { Undefined,
      Obj(<<>>),
      Obj(<< <<<<"q">>, Str(<<"a", " ", "b">>)>> >>),
      Obj(<< <<<<"q">>, Str(<<"a">>)>>, <<<<"n">>, Num(10)>> >>),
      Obj(<< <<<<"q">>, Undefined>> >>) }

Templates ==
    { URLTemplate,
      <<"/", ":", "i", "d", "/", ":", "k">>,
      <<"p">>,
      <<"/", "a", ":", "k", "/", ":", "i", "d">>,
      <<"/", "p", "/", ":", "c", "o", "n", "s", "t", "r", "u", "c", "t", "o", "r">> }

Params ==
    { Undefined,
      Obj(<<>>),
      Obj(<< <<<<"i", "d">>, Num(2)>> >>),
      Obj(<< <<<<"i", "d">>, Str(<<"a", "/", "b">>)>>, <<<<"k">>, Num(10)>> >>),
      Obj(<< <<<<"i", "d">>, Str(<<LoneSurrogate>>)>> >>),
      Obj(<< <<<<"k">>, Str(<<"v">>)>> >>) }

ConstructionArgs ==
    [url : Templates, method : Methods, payload : Payloads, headers : {Undefined},
     query : Queries, queryOptions : {Undefined}, urlParams : Params]

\* a caller holding the arguments of one call
InitConstruction ==
    /\ active = {1}
    /\ \E a \in ConstructionArgs :
          args = [r \in Invocations |-> IF r = 1 THEN a ELSE Undefined]
    /\ options = [r \in Invocations |-> Undefined]
    /\ pc = [r \in Invocations |-> IF r = 1 THEN "caller" ELSE "unused"]
    /\ site = [r \in Invocations |-> "none"]
    /\ count = [r \in Invocations |-> 0]
    /\ body = [r \in Invocations |-> Undefined]
    /\ requestURL = [r \in Invocations |-> <<>>]
    /\ timers = [r \in Invocations |-> {}]
    /\ timer = [r \in Invocations |-> Null]
    /\ aborted = [r \in Invocations |-> FALSE]
    /\ response = [r \in Invocations |-> Null]
    /\ outcome = [r \in Invocations |-> NoTuple]
    /\ result = [r \in Invocations |-> Pending]
    /\ delayMs = [r \in Invocations |-> 0]
    /\ calls = [r \in Invocations |-> <<>>]
    /\ delays = [r \in Invocations |-> <<>>]
    /\ fnCalls = [r \in Invocations |-> <<>>]
    /\ handled = [r \in Invocations |-> <<>>]
    /\ handlerRet = [r \in Invocations |-> <<>>]
    /\ raised = [r \in Invocations |-> <<>>]
    /\ only429 = [r \in Invocations |-> TRUE]
    /\ now = 0

\* the call completes: result[r] is the value returned or the exception thrown
Completes(r, fn, completion) ==
    /\ pc[r] = "caller"
    /\ pc' = [pc EXCEPT ![r] = fn]
    /\ result' = [result EXCEPT ![r] = completion]
    /\ UNCHANGED <<active, args, options, site, count, body, requestURL, timers, timer,
                   aborted, response, outcome, delayMs, calls, delays, fnCalls,
                   handled, handlerRet, raised, only429, now>>

\* constructBody(payload, method)
CallConstructBody(r) ==
    /\ pc[r] = "caller"
    /\ Completes(r, "constructBody", constructBody(args[r].payload, args[r].method))

\* constructURL({url, query, method, queryOptions, urlParams})
CallConstructURL(r) ==
    /\ pc[r] = "caller"
    /\ Completes(r, "constructURL", constructURL(args[r]))

\* populateParams(url, params), params being a mapping
CallPopulateParams(r) ==
    /\ pc[r] = "caller"
    /\ Truthy(args[r].urlParams)
    /\ Completes(r, "populateParams", populateParams(args[r].url, args[r].urlParams.v))

NextConstruction ==
    \E r \in Invocations :
        \/ CallConstructBody(r)
        \/ CallConstructURL(r)
        \/ CallPopulateParams(r)

SpecConstruction == InitConstruction /\ [][NextConstruction]_vars

-----------------------------------------------------------------------------
(* Vocabulary of the properties *)

\* the tuple request resolved with
Tuple(r) == result[r].value

\* the configured retry count n of an invocation that loops
RetryN(r) == options[r].retry.count.v

\* the attempt in progress or just finished returned through line 56
AttemptSucceeded(r) == pc[r] \in {"settled", "returned"} /\ raised[r] = <<>>

\* a populated failure slot whose statusCode is not 429
IsOtherFailure(e) == Truthy(e) /\ StatusCodeOf(e) # Num(429)

\* a step of invocation r leaves the program point p
Leaves(r, p) == pc[r] = p /\ pc'[r] # p

-----------------------------------------------------------------------------
(* C1: the Outcome tuple *)

\* C1 as stated: every Outcome request returns has exactly one populated slot,
\* (data, null) with data non-null or (null, failure) with failure non-null.
C1_ExactlyOneSlot ==
    \A r \in active :
        pc[r] = "returned" =>
            \/ ~IsNullish(Tuple(r)[1]) /\ Tuple(r)[2] = Null
            \/ Tuple(r)[1] = Null /\ ~IsNullish(Tuple(r)[2])

\* C1 amended: the two slots of a returned Outcome are never both populated;
\* an attempt that ended through the success handler gives (d, null) with d the
\* value that handler returned, an attempt that ended in the catch block with
\* an error e gives (null, e') with e' non-null; so exactly one slot is
\* populated unless the success handler returned null or undefined, and then
\* both slots are empty.
C1_AtMostOneSlot ==
    \A r \in active :
        pc[r] = "returned" =>
            /\ IsNullish(Tuple(r)[1]) \/ IsNullish(Tuple(r)[2])
            /\ raised[r] = <<>> =>
                  /\ Len(handlerRet[r]) = 1
                  /\ handled[r] = <<"handleSuccessResponse">>
                  /\ Tuple(r) = <<handlerRet[r][1], Null>>
            /\ raised[r] # <<>> =>
                  /\ Tuple(r)[1] = Null
                  /\ ~IsNullish(Tuple(r)[2])
            /\ (IsNullish(Tuple(r)[1]) /\ IsNullish(Tuple(r)[2])) <=>
                  (raised[r] = <<>> /\ IsNullish(handlerRet[r][1]))

\* a looping request returned the Outcome of a success handler that returned
\* undefined: both slots are empty
C1_Witness ==
    /\ pc[1] = "returned"
    /\ raised[1] = <<>>
    /\ Tuple(1) = <<Undefined, Null>>
    /\ Looping(options[1])

-----------------------------------------------------------------------------
(* C2: exceptions leaving request *)

\* C2 as stated: no exception ever escapes request; whatever the transport,
\* the handlers, the URL/body construction and the retry delay function do,
\* the call completes by returning an Outcome tuple.
C2_NoExceptionEscapes == \A r \in active : pc[r] # "rejected"

\* C2 amended: every value raised inside the guarded section of an attempt (by
\* the transport, by the deadline abort, by the success or error handler) is
\* caught and becomes the second slot of the attempt's tuple (for an AbortError,
\* the timeout RequestError built from it), and request does not reject because
\* of it; request rejects only with an exception thrown by URL/body
\* construction, which runs before the guarded section, or by the caller's
\* retry delay function.
C2_EscapesOnlyOutsideTry ==
    \A r \in active :
        /\ pc[r] = "rejected" =>
              LET b == constructBody(args[r].payload, args[r].method)
                  u == constructURL(args[r])
              IN \/ /\ b.thrown \/ u.thrown
                    /\ result[r].reason \in {b.v, u.v}
                    /\ raised[r] = <<>>
                    /\ Len(calls[r]) = count[r]
                 \/ /\ ~b.thrown /\ ~u.thrown
                    /\ Looping(options[r])
                    /\ options[r].retry.delay = Fn("throws")
                    /\ result[r].reason = CallDelay(options[r].retry.delay, count[r]).v
                    /\ Truthy(outcome[r][2])
        /\ (pc[r] \in {"settled", "returned", "delay"} /\ raised[r] # <<>>) =>
              /\ Len(raised[r]) = 1
              /\ outcome[r][1] = Null
              /\ IF raised[r][1] = AbortError
                 THEN /\ outcome[r][2].name = "RequestError"
                      /\ outcome[r][2].message.text = "Request timeout: did not respond within"
                 ELSE outcome[r][2] = raised[r][1]

\* the caller's delay function threw after the failed first attempt, and
\* request rejected with what it threw
C2_Witness ==
    /\ pc[1] = "rejected"
    /\ Len(calls[1]) = 1
    /\ Truthy(outcome[1][2])
    /\ result[1] = Rejected(Err("Error", "delay failed"))

-----------------------------------------------------------------------------
(* C3: a 429 failure stops the retry loop *)

\* C3: with retry count n >= 1, as soon as an attempt ends in a failure whose
\* statusCode is 429, request returns (null, that failure): no delay is
\* computed or awaited and no further call of the transport is made, and
\* nothing happens after the return.
C3_StopOn429 ==
    [][\A r \in active :
          Looping(options[r]) =>
             /\ (Leaves(r, "settled") /\ StatusCodeOf(outcome[r][2]) = Num(429)) =>
                   /\ pc'[r] = "returned"
                   /\ result'[r] = Fulfilled(<<Null, outcome[r][2]>>)
                   /\ calls'[r] = calls[r]
                   /\ delays'[r] = delays[r]
                   /\ fnCalls'[r] = fnCalls[r]
             /\ pc[r] = "returned" =>
                   /\ pc'[r] = "returned"
                   /\ calls'[r] = calls[r]
                   /\ delays'[r] = delays[r]]_vars

\* with n = 2, the second attempt ended in a 429 failure and request returned
\* it after two calls, an attempt still to spare
C3_Witness ==
    /\ pc[1] = "returned"
    /\ Looping(options[1]) /\ RetryN(1) = 2
    /\ Len(calls[1]) = 2
    /\ Tuple(1)[1] = Null
    /\ StatusCodeOf(Tuple(1)[2]) = Num(429)

-----------------------------------------------------------------------------
(* C4: a transport that always answers 429 *)

\* C4 as stated: with retry count n >= 1, when the transport answers every
\* call with status 429, exactly one call is made and the Outcome is
\* (null, failure) with statusCode 429, whatever the error handler and the
\* deadline timer do while the 429 response is processed.
C4_OneCallOn429 ==
    \A r \in active :
        (Looping(options[r]) /\ only429[r]) =>
            /\ Len(calls[r]) <= 1
            /\ pc[r] = "returned" =>
                  /\ Len(calls[r]) = 1
                  /\ Tuple(r)[1] = Null
                  /\ StatusCodeOf(Tuple(r)[2]) = Num(429)

-----------------------------------------------------------------------------
(* C5: the retry budget *)

\* C5: with retry count n >= 1 the attempts are indexed 0..n: never more than
\* n + 1 calls of the transport are made, and a request that returns a failure
\* whose statusCode is not 429 (every attempt failed that way) has made exactly
\* n + 1 calls, returns the tuple of attempt n, and awaited n delays, the last
\* of them after attempt n - 1: none after attempt n.
C5_BudgetExhausted ==
    \A r \in active :
        Looping(options[r]) =>
            /\ Len(calls[r]) <= RetryN(r) + 1
            /\ \A i \in 1..Len(calls[r]) : calls[r][i].attempt = i - 1
            /\ (pc[r] = "returned" /\ IsOtherFailure(Tuple(r)[2])) =>
                  /\ Len(calls[r]) = RetryN(r) + 1
                  /\ Tuple(r) = outcome[r]
                  /\ Len(delays[r]) = RetryN(r)
                  /\ \A j \in 1..Len(delays[r]) : delays[r][j].after = j - 1

\* with n = 2, three attempts failed with failures that are not 429 and
\* request returned the third failure
C5_Witness ==
    /\ pc[1] = "returned"
    /\ Looping(options[1]) /\ RetryN(1) = 2
    /\ Len(calls[1]) = 3
    /\ IsOtherFailure(Tuple(1)[2])
    /\ StatusCodeOf(Tuple(1)[2]) = Num(404)

-----------------------------------------------------------------------------
(* C6: a success stops the retry loop *)

\* C6: with retry count n >= 1, when attempt k succeeds (attempts 0..k-1
\* failed), k + 1 calls of the transport have been made, request returns
\* (data of attempt k, null), and after the success no delay is awaited and no
\* further attempt starts.
C6_SuccessStops ==
    [][\A r \in active :
          Looping(options[r]) =>
             /\ (Leaves(r, "settled") /\ raised[r] = <<>>) =>
                   /\ pc'[r] = "returned"
                   /\ result'[r] = Fulfilled(<<handlerRet[r][1], Null>>)
                   /\ calls'[r] = calls[r]
                   /\ Len(calls[r]) = count[r] + 1
                   /\ calls[r][Len(calls[r])].attempt = count[r]
                   /\ delays'[r] = delays[r]
                   /\ Len(delays[r]) = count[r]
                   /\ fnCalls'[r] = fnCalls[r]
             /\ (pc[r] = "returned" /\ raised[r] = <<>>) =>
                   /\ pc'[r] = "returned"
                   /\ calls'[r] = calls[r]
                   /\ delays'[r] = delays[r]]_vars

\* with n = 1, a failure then a success: two calls and a success Outcome
C6_Witness ==
    /\ pc[1] = "returned"
    /\ Looping(options[1]) /\ RetryN(1) = 1
    /\ Len(calls[1]) = 2
    /\ Len(delays[1]) = 1
    /\ raised[1] = <<>>
    /\ Tuple(1) = <<Obj(<<>>), Null>>

-----------------------------------------------------------------------------
(* C7: no retry configuration *)

\* no retry configuration, or retry.count absent or <= 0
NoRetry(o) ==
    \/ o.retry = Undefined
    \/ o.retry.count = Undefined
    \/ o.retry.count.v <= 0

\* C7: when no retry configuration is supplied, or retry.count is absent or
\* <= 0, request makes exactly one call of the Dispatcher, awaits no delay and
\* returns that call's Outcome unchanged, whatever it is.
C7_SingleCall ==
    \A r \in active :
        NoRetry(options[r]) =>
            /\ Len(calls[r]) <= 1
            /\ delays[r] = <<>>
            /\ fnCalls[r] = <<>>
            /\ pc[r] # "delay"
            /\ pc[r] = "returned" =>
                  /\ Len(calls[r]) = 1
                  /\ Tuple(r) = outcome[r]

\* with retry.count = 0, the only call was answered 429 and request returned
\* that failure
C7_Witness ==
    /\ pc[1] = "returned"
    /\ options[1].retry # Undefined
    /\ options[1].retry.count = Num(0)
    /\ Len(calls[1]) = 1
    /\ StatusCodeOf(Tuple(1)[2]) = Num(429)

-----------------------------------------------------------------------------
(* C8: the delay between attempts *)

\* the duration the configuration asks for after the failed attempt i
ExpectedDelay(o, i) ==
    CASE o.retry.delay.t = "function" -> CallDelay(o.retry.delay, i).v.v
      [] o.retry.delay.t = "number" -> o.retry.delay.v
      [] OTHER -> i * 2000

\* the caller's delay function throws when called with i
DelayThrows(o, i) == o.retry.delay.t = "function" /\ CallDelay(o.retry.delay, i).thrown

\* C8: after a failed attempt i that is neither a 429 failure nor the last
\* attempt, attempt i + 1 starts only after exactly one delay has been awaited
\* and has elapsed; its duration is delay(i) when retry.delay is a function
\* (called once, with i), retry.delay when it is a number (0 included), and
\* i * 2000 when no delay is configured; the delay function is called with
\* 0, 1, 2, ... in this order.  (A delay function that throws ends the request
\* there: no delay, no attempt i + 1.)
C8_DelayBeforeRetry ==
    [][\A r \in active :
          Looping(options[r]) =>
             /\ (Leaves(r, "settled") /\ IsOtherFailure(outcome[r][2]) /\ count[r] < RetryN(r)) =>
                   /\ calls'[r] = calls[r]
                   /\ fnCalls'[r] = IF options[r].retry.delay.t = "function"
                                    THEN Append(fnCalls[r], count[r]) ELSE <<>>
                   /\ IF DelayThrows(options[r], count[r])
                      THEN pc'[r] = "rejected" /\ delays'[r] = delays[r]
                      ELSE /\ pc'[r] = "delay"
                           /\ delayMs'[r] = ExpectedDelay(options[r], count[r])
                           /\ delays'[r] = Append(delays[r],
                                 [after |-> count[r], ms |-> ExpectedDelay(options[r], count[r])])
             /\ pc[r] = "delay" =>
                   /\ calls'[r] = calls[r]
                   /\ delays'[r] = delays[r]
                   /\ Leaves(r, "delay") =>
                         /\ pc'[r] = "call"
                         /\ count'[r] = count[r] + 1
                         /\ now' = now + delayMs[r]
             /\ calls'[r] # calls[r] =>
                   /\ pc[r] = "call"
                   /\ Len(calls'[r]) = Len(delays[r]) + 1
                   /\ calls'[r][Len(calls'[r])].attempt = Len(delays[r])
             /\ \A j \in 1..Len(fnCalls'[r]) : fnCalls'[r][j] = j - 1]_vars

\* with n = 2 and a delay function, the third attempt was dispatched after the
\* delays delay(0) and delay(1)
C8_Witness ==
    /\ pc[1] = "fetch"
    /\ Looping(options[1]) /\ RetryN(1) = 2
    /\ options[1].retry.delay = Fn("backoff")
    /\ Len(calls[1]) = 3
    /\ fnCalls[1] = <<0, 1>>
    /\ delays[1] = <<[after |-> 0, ms |-> 1000], [after |-> 1, ms |-> 2000]>>

-----------------------------------------------------------------------------
(* C9: the deadline fires before a response *)

\* the configured timeout: options.timeout, 30000 when absent
ConfiguredTimeout(o) == IF o.timeout = Undefined THEN 30000 ELSE o.timeout.v

\* C9: when the deadline timer of an attempt fires before the transport
\* delivers a response, the call in flight is cancelled and the attempt's
\* Outcome is (null, failure), where failure.message signals a timeout,
\* failure.data carries the configured timeout and failure.statusCode is absent.
C9_TimeoutFailure ==
    \A r \in active :
        (pc[r] \in {"settled", "delay", "returned"} /\ aborted[r] /\ response[r] = Null) =>
            /\ outcome[r][1] = Null
            /\ outcome[r][2].t = "error"
            /\ outcome[r][2].name = "RequestError"
            /\ outcome[r][2].message.text = "Request timeout: did not respond within"
            /\ outcome[r][2].message.n = ConfiguredTimeout(options[r])
            /\ outcome[r][2].data =
                  Obj(<< <<<<"timeout">>,
                           Obj(<< <<<<"seconds">>, Num(ConfiguredTimeout(options[r]))>> >>)>> >>)
            /\ outcome[r][2].statusCode = Undefined

\* the deadline of 5000 ms fired while the call was in flight
C9_Witness ==
    /\ pc[1] = "settled"
    /\ aborted[1]
    /\ response[1] = Null
    /\ options[1].timeout = Num(5000)
    /\ raised[1] = <<AbortError>>

-----------------------------------------------------------------------------
(* C10: a response with a status that is not ok *)

\* what the error handler of the options gives on the response of the current
\* attempt: the default decoder applied to it, or what the caller's handler
\* returned
ErrorHandlerValue(r) ==
    IF IsNullish(options[r].handleErrorResponse)
    THEN handleResponse(response[r])
    ELSE IF handlerRet[r] # <<>> THEN Ret(handlerRet[r][1]) ELSE Thrown(Undefined)

\* C10 as stated: for every response delivered with a status s that is not ok,
\* the attempt's Outcome is (null, failure) with failure.statusCode = s,
\* failure.data the value of the error handler on that response,
\* failure.headers the response headers, failure.method the request method and
\* failure.url the effective URL; the success handler is not invoked.
C10_HttpFailure ==
    \A r \in active :
        (pc[r] = "settled" /\ response[r] # Null) =>
            ((~Ok(response[r]) /\ ~ErrorHandlerValue(r).thrown) =>
                /\ outcome[r][1] = Null
                /\ outcome[r][2].t = "error"
                /\ outcome[r][2].statusCode = Num(response[r].status)
                /\ outcome[r][2].data = ErrorHandlerValue(r).v
                /\ outcome[r][2].headers = HeadersRaw(response[r])
                /\ outcome[r][2].method = Method(args[r].method)
                /\ outcome[r][2].url = Str(requestURL[r])
                /\ handled[r] = <<"handleErrorResponse">>)

-----------------------------------------------------------------------------
(* C11: a response with a success status *)

\* the default decoder stands in for a handler the options leave out
IsDefault(h) == IsNullish(h)

\* C11: for every response delivered with a success status before the
\* deadline, the success handler h (the caller's, else the default decoder) is
\* invoked exactly once on it and the error handler never; the deadline timer
\* is disarmed while h runs; and the attempt's Outcome is (h(response), null):
\* the value h returned, which for the default decoder is the decoded body.
\* (An h that throws returns no value; that attempt is the subject of C20.)
C11_SuccessOutcome ==
    \A r \in active :
        (pc[r] \in {"handleSuccess", "settled"} /\ response[r] # Null /\ Ok(response[r])) =>
            LET h == options[r].handleSuccessResponse
            IN /\ handled[r] = <<"handleSuccessResponse">>
               /\ timers[r] = {}
               /\ ~aborted[r]
               /\ (pc[r] = "settled" /\ raised[r] = <<>>) =>
                     /\ Len(handlerRet[r]) = 1
                     /\ outcome[r] = <<handlerRet[r][1], Null>>
                     /\ IsDefault(h) => handleResponse(response[r]) = Ret(handlerRet[r][1])
               /\ (pc[r] = "settled" /\ IsDefault(h) /\ ~handleResponse(response[r]).thrown) =>
                     outcome[r] = <<handleResponse(response[r]).v, Null>>

\* a 200 response with a JSON body went through the default decoder: the
\* Outcome holds the decoded object
C11_Witness ==
    /\ pc[1] = "settled"
    /\ response[1] # Null
    /\ response[1].status = 200
    /\ response[1].contentType = JsonType
    /\ response[1].body = BodyObject
    /\ IsDefault(options[1].handleSuccessResponse)
    /\ outcome[1] = <<Obj(<<>>), Null>>

-----------------------------------------------------------------------------
(* C12: the context a failure carries *)

\* C12 as stated: every failure value in the failure half of an Outcome,
\* whatever its cause (HTTP-level failure, timeout, transport fault, fault
\* raised while decoding the body), carries the url, the method and an integer
\* timestamp of the attempt, even when no response was received.
C12_FailureContext ==
    \A r \in active :
        (pc[r] \in {"settled", "delay", "returned"} /\ Truthy(outcome[r][2])) =>
            /\ outcome[r][2].url.t = "string"
            /\ outcome[r][2].method = Method(args[r].method)
            /\ outcome[r][2].timestamp.t = "number"

-----------------------------------------------------------------------------
(* C13: the deadline timer of an attempt *)

\* C13: each attempt that reaches the transport schedules exactly one deadline
\* timer, its own; on every exit path of the attempt (success, HTTP failure,
\* timeout, transport fault, fault raised by a handler) that timer is cleared
\* before the attempt returns: no deadline timer is armed once an attempt has
\* settled, while a retry delay is awaited, or after request returned or
\* rejected, and at most one deadline timer is armed at any moment.
C13_TimerCleared ==
    \A r \in active :
        /\ Cardinality(timers[r]) <= 1
        /\ timers[r] # {} => /\ pc[r] \in {"fetch", "handleError"}
                              /\ timer[r] = Num(Len(calls[r]))
                              /\ timers[r] = {Len(calls[r])}
        /\ pc[r] = "fetch" => timers[r] = {Len(calls[r])}
        /\ pc[r] \in {"init", "call", "settled", "delay", "returned", "rejected"} =>
              timers[r] = {}

\* the second attempt received a 404 response and its error handler threw:
\* the attempt has settled and its timer is no longer armed
C13_Witness ==
    /\ pc[1] = "settled"
    /\ Len(calls[1]) = 2
    /\ response[1] # Null
    /\ response[1].status = 404
    /\ raised[1] = <<Err("Error", "handler failed")>>
    /\ timer[1] = Num(2)
    /\ timers[1] = {}

-----------------------------------------------------------------------------
(* C14: the order of the attempts *)

\* an attempt of invocation r is between its call of the transport and its
\* Outcome
InFlight(r) == pc[r] \in {"fetch", "handleError", "handleSuccess"}

\* C14: within one invocation the attempts are sequential and ordered: a call
\* of the transport starts only when no attempt is in flight, attempt N + 1
\* starts only after the Outcome of attempt N is known (and is a failure), and
\* the attempts are dispatched with the indices 0, 1, 2, ... in this order,
\* none skipped or repeated; the calls already made are never reordered.
C14_Sequential ==
    [][\A r \in active :
          /\ InFlight(r) => calls'[r] = calls[r]
          /\ calls'[r] # calls[r] =>
                /\ ~InFlight(r)
                /\ InFlight(r)'
                /\ Len(calls'[r]) = Len(calls[r]) + 1
                /\ SubSeq(calls'[r], 1, Len(calls[r])) = calls[r]
                /\ calls'[r][Len(calls'[r])].attempt = Len(calls[r])
                /\ Len(calls[r]) > 0 =>
                      /\ outcome[r] # NoTuple
                      /\ Truthy(outcome[r][2])
                      /\ Len(raised[r]) = 1]_vars

\* three attempts were dispatched, with the indices 0, 1 and 2, and the third
\* is in flight
C14_Witness ==
    /\ InFlight(1)
    /\ Len(calls[1]) = 3
    /\ \A i \in 1..3 : calls[1][i].attempt = i - 1
    /\ response[1] = Null

-----------------------------------------------------------------------------
(* C15: constructBody *)

\* the payload is absent or has no key
ZeroKeys(payload) == payload = Undefined \/ Len(payload.v) = 0

\* C15: for every payload (an absent one included) and every method,
\* constructBody returns undefined if and only if the method is GET or the
\* payload has zero keys; in every other case its result is the JSON
\* serialization of the payload, JSON.stringify(payload).
C15_ConstructBody ==
    \A r \in active :
        pc[r] = "constructBody" =>
            LET absent == args[r].method = "GET" \/ ZeroKeys(args[r].payload)
            IN /\ result[r] = Ret(Undefined) <=> absent
               /\ ~absent => result[r] = JSONstringify(args[r].payload)

\* constructBody({k: 'v', n: 1}, 'PUT') returned the text {"k":"v","n":1}
C15_Witness ==
    /\ pc[1] = "constructBody"
    /\ args[1].method = "PUT"
    /\ args[1].payload = Obj(<< <<<<"k">>, Str(<<"v">>)>>, <<<<"n">>, Num(1)>> >>)
    /\ result[1] = Ret(Str(<<"{", "\"", "k", "\"", ":", "\"", "v", "\"", ",",
                              "\"", "n", "\"", ":", "1", "}">>))

-----------------------------------------------------------------------------
(* C16: the query string of constructURL *)

\* the parameter-substituted URL: the template when no urlParams are given
Substituted(a) ==
    IF a.urlParams = Undefined THEN Ret(a.url) ELSE populateParams(a.url, a.urlParams.v)

\* the number of characters c in the string s
Occurrences(s, c) == Cardinality({i \in 1..Len(s) : s[i] = c})

\* C16: constructURL appends '?' and the serialized query to the
\* parameter-substituted URL if and only if the method is GET and the query
\* mapping is present with at least one key; for a GET request with an empty
\* or absent query, and for every other method whatever the query holds, the
\* result is exactly the parameter-substituted URL, with no '?' appended.
C16_ConstructURL ==
    \A r \in active :
        (pc[r] = "constructURL" /\ ~Substituted(args[r]).thrown) =>
            LET a == args[r]
                appends == /\ a.method = "GET"
                           /\ a.query # Undefined
                           /\ Len(a.query.v) > 0
            IN /\ ~result[r].thrown
               /\ appends =>
                     /\ result[r].v = Substituted(a).v \o <<"?">>
                                         \o qsStringify(a.query, a.queryOptions)
                     /\ Occurrences(result[r].v, "?") = 1
               /\ ~appends =>
                     /\ result[r].v = Substituted(a).v
                     /\ Occurrences(result[r].v, "?") = 0

\* constructURL of GET /p/:id with urlParams {id: 2} and query {q: 'a b'}
\* returned /p/2?q=a%20b
C16_Witness ==
    /\ pc[1] = "constructURL"
    /\ args[1].method = "GET"
    /\ args[1].url = URLTemplate
    /\ args[1].urlParams = Obj(<< <<<<"i", "d">>, Num(2)>> >>)
    /\ args[1].query = Obj(<< <<<<"q">>, Str(<<"a", " ", "b">>)>> >>)
    /\ result[1] = Ret(<<"/", "p", "/", "2", "?", "q", "=", "a", "%", "2", "0", "b">>)

-----------------------------------------------------------------------------
(* C17: populateParams *)

\* what C17 makes of one segment of the template
ExpectedSegment(seg, params) ==
    IF seg # <<>> /\ seg[1] = ":"
    THEN IF HasKey(params, Tail(seg))
         THEN EncodeChars(StringOf(Lookup(params, Tail(seg))))
         ELSE <<>>
    ELSE seg

\* C17 as stated: for all templates and parameter mappings, populateParams
\* never throws and returns the template split on '/' with the same number of
\* segments in the same order, each segment starting with ':' replaced by the
\* percent-encoded string form of the mapped value, or by the empty string when
\* its name is missing from the mapping, every other segment unmodified;
\* parameters the template does not reference have no effect.
C17_PopulateParams ==
    \A r \in active :
        pc[r] = "populateParams" =>
            /\ ~result[r].thrown
            /\ LET segs == Split(args[r].url, "/")
                   out == Split(result[r].v, "/")
               IN /\ Len(out) = Len(segs)
                  /\ \A i \in 1..Len(segs) :
                        out[i] = ExpectedSegment(segs[i], args[r].urlParams.v)

-----------------------------------------------------------------------------
(* C18: the deadline timer once a response has arrived *)

\* the failure is the timeout failure of lines 64-70
IsTimeoutFailure(e) ==
    /\ Truthy(e)
    /\ e.message.text = "Request timeout: did not respond within"

\* C18 as stated: once the transport has delivered a response before the
\* deadline fired, the deadline timer is disarmed, for ok and non-ok responses
\* alike: it cannot fire and abort the call while the success handler or the
\* error handler processes the response, and an attempt that received a
\* response never ends as a timeout failure.
C18_DisarmedOnResponse ==
    \A r \in active :
        response[r] # Null =>
            /\ pc[r] \in {"handleError", "handleSuccess"} =>
                  /\ timers[r] = {}
                  /\ ~aborted[r]
            /\ pc[r] = "settled" => ~IsTimeoutFailure(outcome[r][2])

-----------------------------------------------------------------------------
(* C19: the lifetime of an attempt *)

\* C19 as stated: with a fair deadline timer and a finite timeout every
\* attempt eventually produces its Outcome, also when the transport never
\* responds and when the body of the response never finishes being read by
\* the success or error handler; so, the retry delays being finite, every
\* invocation of request eventually ends.
C19_BoundedLifetime ==
    \A r \in Invocations :
        /\ InFlight(r) ~> pc[r] = "settled"
        /\ <>(pc[r] \in {"returned", "rejected", "unused"})

-----------------------------------------------------------------------------
(* C20: the statusCode of a failure *)

\* C20: the failure of an Outcome carries a statusCode only if the transport
\* delivered a response in that attempt, and it is then the status of that
\* response; after a transport fault or a timeout the statusCode is absent;
\* and every fault raised during an attempt (transport fault, abort, fault of
\* a handler decoding the body) gives a failure Outcome, (null, failure) with
\* failure populated, never a success.
C20_StatusOnlyWithResponse ==
    \A r \in active :
        pc[r] \in {"settled", "delay", "returned"} =>
            /\ StatusCodeOf(outcome[r][2]) # Undefined =>
                  /\ response[r] # Null
                  /\ StatusCodeOf(outcome[r][2]) = Num(response[r].status)
            /\ response[r] = Null =>
                  /\ Len(raised[r]) = 1
                  /\ raised[r][1] \in TransportFaults \cup {AbortError}
                  /\ StatusCodeOf(outcome[r][2]) = Undefined
            /\ raised[r] # <<>> =>
                  /\ outcome[r][1] = Null
                  /\ Truthy(outcome[r][2])

\* the transport refused the connection: the failure is the fault fetch
\* rejected with, and has no statusCode
C20_Witness ==
    /\ pc[1] = "settled"
    /\ response[1] = Null
    /\ raised[1] = <<Err("FetchError", "connect ECONNREFUSED")>>
    /\ outcome[1] = <<Null, Err("FetchError", "connect ECONNREFUSED")>>
    /\ StatusCodeOf(outcome[1][2]) = Undefined

-----------------------------------------------------------------------------
(* C21: the deadline of one attempt and the other attempts *)

\* C21: each attempt has its own cancellation handle, not aborted when the
\* attempt starts, and its own deadline timer, the only one armed, set to the
\* configured timeout; a deadline that fires aborts the attempt in flight it
\* belongs to, after exactly the timeout, and nothing else: no call is added
\* or removed and no retry delay is shortened, no timer being armed during
\* one; an attempt that timed out is a failure without statusCode: in the
\* loop it is not taken for a 429, a delay is awaited after it and the next
\* attempt follows, and as the last attempt its failure is what request
\* returns.
C21_PerAttemptDeadline ==
    [][\A r \in active :
          /\ calls'[r] # calls[r] =>
                /\ ~aborted'[r]
                /\ timer'[r] = Num(Len(calls'[r]))
                /\ timers'[r] = {Len(calls'[r])}
          /\ (aborted'[r] /\ ~aborted[r]) =>
                /\ InFlight(r)
                /\ timers[r] = {Len(calls[r])}
                /\ timer[r] = Num(Len(calls[r]))
                /\ timers'[r] = {}
                /\ now' = now + ConfiguredTimeout(options[r])
                /\ calls'[r] = calls[r]
                /\ delays'[r] = delays[r]
                /\ count'[r] = count[r]
          /\ pc[r] = "delay" => (timers[r] = {} /\ aborted'[r] = aborted[r])
          /\ (Leaves(r, "settled") /\ raised[r] = <<AbortError>>) =>
                /\ StatusCodeOf(outcome[r][2]) = Undefined
                /\ ~IsRateLimited(outcome[r][2])
                /\ site[r] = "loop" =>
                      IF DelayThrows(options[r], count[r])
                      THEN pc'[r] = "rejected"
                      ELSE /\ pc'[r] = "delay"
                           /\ delayMs'[r] = ExpectedDelay(options[r], count[r])
                /\ site[r] = "final" =>
                      /\ pc'[r] = "returned"
                      /\ result'[r] = Fulfilled(outcome[r])
                      /\ Len(calls[r]) = (IF Looping(options[r]) THEN RetryN(r) ELSE 0) + 1]_vars

\* with n = 2, the second attempt timed out and the delay before the third
\* attempt is awaited
C21_Witness ==
    /\ pc[1] = "delay"
    /\ Looping(options[1]) /\ RetryN(1) = 2
    /\ Len(calls[1]) = 2
    /\ raised[1] = <<AbortError>>
    /\ response[1] = Null
    /\ aborted[1]

-----------------------------------------------------------------------------
(* C22: what the attempts of one invocation send *)

\* what a call of the transport was given
Sent(call) ==
    [url |-> call.url, method |-> call.method, headers |-> call.headers, body |-> call.body]

\* C22: URL and body are functions of the RequestSpec alone: within one
\* invocation every attempt, the first and the retried ones, gives the
\* transport the same method, the same effective URL, the same headers and the
\* same body, those built from the RequestSpec, and no step changes the
\* RequestSpec or the RequestOptions.
C22_SameRequestEachAttempt ==
    [][\A r \in active :
          /\ args'[r] = args[r]
          /\ options'[r] = options[r]
          /\ \A i \in 1..Len(calls'[r]) :
                /\ Sent(calls'[r][i]) = Sent(calls'[r][1])
                /\ calls'[r][i].url = constructURL(args[r]).v
                /\ calls'[r][i].body = constructBody(args[r].payload, args[r].method).v
                /\ calls'[r][i].method = args[r].method
                /\ calls'[r][i].headers = args[r].headers]_vars

\* three attempts of a POST: each sent the template as URL, the headers
\* {x: '1'} and the body {"k":"v"}
C22_Witness ==
    /\ Len(calls[1]) = 3
    /\ \A i \in 1..3 :
          Sent(calls[1][i]) =
             [url |-> URLTemplate, method |-> "POST",
              headers |-> Obj(<< <<<<"x">>, Str(<<"1">>)>> >>),
              body |-> Str(<<"{", "\"", "k", "\"", ":", "\"", "v", "\"", "}">>)]

-----------------------------------------------------------------------------
(* C23: two invocations at once *)

\* everything invocation r holds
Locals(r) ==
    <<args[r], options[r], pc[r], site[r], count[r], body[r], requestURL[r], timers[r],
      timer[r], aborted[r], response[r], outcome[r], result[r], delayMs[r], calls[r],
      delays[r], fnCalls[r], handled[r], handlerRet[r], raised[r], only429[r]>>

\* the number of calls of the transport the options allow
Budget(o) == (IF Looping(o) THEN o.retry.count.v ELSE 0) + 1

\* C23: two invocations of request whose attempts, timers and retry delays
\* interleave in any order are independent: every step (a call, a response, a
\* timeout, an abort, a retry delay, a return) is the step of one invocation
\* and leaves everything the other holds unchanged, so it neither cancels nor
\* delays nor adds an attempt of the other; and each invocation makes its
\* calls as it does alone: its own request each time, attempts 0, 1, ... within
\* its own budget, and it returns the Outcome of its own last attempt.
C23_Independent ==
    [][/\ \E r \in Invocations : \A q \in Invocations \ {r} : Locals(q)' = Locals(q)
       /\ \A r \in Invocations :
             /\ Len(calls'[r]) <= Budget(options[r])
             /\ \A i \in 1..Len(calls'[r]) :
                   /\ calls'[r][i].attempt = i - 1
                   /\ calls'[r][i].url = constructURL(args[r]).v
                   /\ calls'[r][i].method = args[r].method
             /\ timers'[r] \subseteq {Len(calls'[r])}
             /\ pc'[r] = "returned" => result'[r] = Fulfilled(outcome'[r])
             /\ (pc'[r] = "settled" /\ aborted'[r] /\ response'[r] = Null) =>
                   raised'[r] = <<AbortError>>]_vars

\* both invocations returned: the first timed out twice, the second
\* succeeded at its first attempt
C23_Witness ==
    /\ pc[1] = "returned" /\ pc[2] = "returned"
    /\ Len(calls[1]) = 2 /\ Len(calls[2]) = 1
    /\ raised[1] = <<AbortError>>
    /\ raised[2] = <<>>
    /\ ~aborted[2]
    /\ Tuple(2) = <<Obj(<<>>), Null>>

-----------------------------------------------------------------------------
(* C24: the default response handler *)

\* the Content-Type header is present and contains application/json
HasJsonContentType(resp) ==
    /\ resp.contentType # Null
    /\ \E i \in 1..Len(resp.contentType.v) :
          /\ i + 15 <= Len(resp.contentType.v)
          /\ \A k \in 0..15 : resp.contentType.v[i + k] = ApplicationJson[k + 1]

\* C24: the default handler decodes the body as JSON if and only if the
\* Content-Type header of the response is present and contains the substring
\* application/json; for every other Content-Type, and when the header is
\* missing, it decodes the body as text; each call invokes exactly one of the
\* two decoders, and the handler settles as that decoder does.
C24_DefaultHandler ==
    \A r \in active :
        /\ pc[r] \in {"response.json", "response.text", "handleResponse"} =>
              /\ Len(handled[r]) = 1
              /\ handled[r][1] = "response.json" <=> HasJsonContentType(response[r])
              /\ handled[r][1] = "response.text" <=> ~HasJsonContentType(response[r])
        /\ pc[r] = "handleResponse" =>
              result[r] = IF HasJsonContentType(response[r])
                          THEN JsonOf(response[r]) ELSE TextOf(response[r])

\* a response with Content-Type application/json; charset=utf-8 and the body
\* {} was decoded as JSON, by one decoder
C24_Witness ==
    /\ pc[1] = "handleResponse"
    /\ response[1].contentType = JsonType
    /\ response[1].body = BodyObject
    /\ handled[1] = <<"response.json">>
    /\ result[1] = Ret(Obj(<<>>))

-----------------------------------------------------------------------------
(* C25: the url of a failure *)

\* C25 as stated: in every failure the Dispatcher constructs, HTTP-level
\* failure and timeout failure alike, the url field is the effective URL
\* given to the transport for that attempt: the template after the
\* substitution of the path parameters and the appending of the query.
C25_FailureUrl ==
    \A r \in active :
        (pc[r] = "settled" /\ Truthy(outcome[r][2]) /\ outcome[r][2].name = "RequestError") =>
            /\ outcome[r][2].url = Str(requestURL[r])
            /\ outcome[r][2].url = Str(calls[r][Len(calls[r])].url)

-----------------------------------------------------------------------------
(* C26: a success status whose handler fails *)

\* the attempt received an ok response and its success handler raised a fault
SuccessHandlerFailed(r) ==
    /\ response[r] # Null
    /\ Ok(response[r])
    /\ handled[r] = <<"handleSuccessResponse">>
    /\ raised[r] # <<>>

\* C26: an attempt whose response had a success status and whose success
\* handler raised a fault (the default decoder on a body that does not decode
\* included) ends as (null, failure) with the fault as failure and no
\* statusCode; with retry count n >= 1 it is retried as any failure that is
\* not a 429: in the loop a delay is awaited, after which the request is sent
\* again, n + 1 calls at most; as the last attempt its failure is returned.
C26_SuccessHandlerFault ==
    [][\A r \in active :
          /\ (pc'[r] = "settled" /\ pc[r] = "handleSuccess"
                /\ IsDefault(options[r].handleSuccessResponse)
                /\ handleResponse(response[r]).thrown) =>
                SuccessHandlerFailed(r)'
          /\ (pc[r] = "settled" /\ SuccessHandlerFailed(r)) =>
                /\ outcome[r] = <<Null, raised[r][1]>>
                /\ Truthy(outcome[r][2])
                /\ StatusCodeOf(outcome[r][2]) = Undefined
                /\ (Leaves(r, "settled") /\ site[r] = "loop") =>
                      /\ Looping(options[r])
                      /\ Len(calls[r]) <= RetryN(r)
                      /\ IF DelayThrows(options[r], count[r])
                         THEN pc'[r] = "rejected"
                         ELSE /\ pc'[r] = "delay"
                              /\ Len(delays'[r]) = Len(delays[r]) + 1
                /\ (Leaves(r, "settled") /\ site[r] = "final") =>
                      result'[r] = Fulfilled(outcome[r])
          /\ (Leaves(r, "delay") /\ SuccessHandlerFailed(r)) => pc'[r] = "call"
          /\ (Leaves(r, "call") /\ SuccessHandlerFailed(r)) =>
                /\ Len(calls'[r]) = Len(calls[r]) + 1
                /\ Sent(calls'[r][Len(calls'[r])]) = Sent(calls[r][Len(calls[r])])
                /\ Len(calls'[r]) <= RetryN(r) + 1]_vars

\* with n = 2 the first attempt was answered 200 with a JSON body that does
\* not decode; the delay after it has elapsed and the request is about to be
\* sent again
C26_Witness ==
    /\ Looping(options[1]) /\ RetryN(1) = 2
    /\ pc[1] = "call"
    /\ Len(calls[1]) = 1
    /\ Len(delays[1]) = 1
    /\ response[1] # Null
    /\ response[1].status = 200
    /\ raised[1] = <<Err("SyntaxError", "Unexpected token")>>
    /\ IsDefault(options[1].handleSuccessResponse)
    /\ IsDefault(options[1].handleErrorResponse)
    /\ only429[1] = FALSE

-----------------------------------------------------------------------------
(* C27: when constructURL substitutes *)

\* the part of the URL u before its query string
PathOf(u) == Split(u, "?")[1]

\* some segment of the path p is a ':name' placeholder
HasPlaceholder(p) ==
    \E i \in 1..Len(Split(p, "/")) :
        Split(p, "/")[i] # <<>> /\ Split(p, "/")[i][1] = ":"

\* C27: constructURL substitutes the path placeholders only when a urlParams
\* mapping is supplied: when urlParams is absent the template, its ':name'
\* segments included, goes into the effective URL as it is (the placeholders
\* are not replaced by empty strings), and when a mapping is supplied, an
\* empty one included, every ':name' segment is replaced.
C27_SubstitutionOnlyWithParams ==
    \A r \in active :
        (pc[r] = "constructURL" /\ ~result[r].thrown) =>
            /\ args[r].urlParams = Undefined =>
                  /\ PathOf(result[r].v) = args[r].url
                  /\ HasPlaceholder(PathOf(result[r].v)) <=> HasPlaceholder(args[r].url)
            /\ args[r].urlParams # Undefined =>
                  /\ ~HasPlaceholder(PathOf(result[r].v))
                  /\ Len(Split(PathOf(result[r].v), "/")) = Len(Split(args[r].url, "/"))

\* constructURL of POST /p/:id returned /p/:id without urlParams
C27_Witness ==
    /\ pc[1] = "constructURL"
    /\ args[1].method = "POST"
    /\ args[1].url = URLTemplate
    /\ args[1].urlParams = Undefined
    /\ result[1] = Ret(URLTemplate)

=============================================================================
